---- MODULE Spec2Model ----
(***************************************************************************)
(* Definition-time validation of Halide's Function (src/src/Function.cpp): *)
(* Function::define, Function::define_reduction, Function::define_extern,  *)
(* the CheckVars scope validator and the CountSelfReferences counter.      *)
(*                                                                         *)
(* One Function object (identity This) is built by one caller.  A failed   *)
(* assertf / assert(false) aborts the process: the model records the       *)
(* error kind in result.err, keeps the contents as they are at the point   *)
(* of the abort, and takes no further step.                                *)
(***************************************************************************)
EXTENDS Integers, Sequences, FiniteSets

\* ------------------------------------------------------------------ bounds
\* rand_counter is an int that grows with every definition event; the guards
\* of Define and DefineReduction stop at MaxCounter.
MaxCounter == 3
\* Number of Function handles the caller may hold at once.
MaxHolders == 2
\* Number of update definitions appended to the Function.
MaxReductions == 2

\* ------------------------------------------------------- expression graph
\* Expressions are nodes of a shared graph, addressed by identity (a node id).
\* Undefined is the undefined Expr (Expr()).
Undefined == 0
NoDomain == "none"
\* The Function under definition and its identity as a call target.
This == "F"

\* A Variable node: name, parameter binding, reduction-domain tag.
VarNode(nm, par, rd) ==
    [kind |-> "Var", name |-> nm, param |-> par, rdom |-> rd, type |-> "i32",
     kids |-> <<>>, call_type |-> "none", func |-> "none"]

\* An immediate (literal) of the given type.
ImmNode(ty) ==
    [kind |-> "Imm", name |-> "", param |-> FALSE, rdom |-> NoDomain, type |-> ty,
     kids |-> <<>>, call_type |-> "none", func |-> "none"]

\* A binary arithmetic node a + b.
AddNode(a, b) ==
    [kind |-> "Add", name |-> "", param |-> FALSE, rdom |-> NoDomain, type |-> "i32",
     kids |-> <<a, b>>, call_type |-> "none", func |-> "none"]

\* let nm = value in body; kids = <<value, body>>.
LetNode(nm, value, body) ==
    [kind |-> "Let", name |-> nm, param |-> FALSE, rdom |-> NoDomain, type |-> "i32",
     kids |-> <<value, body>>, call_type |-> "none", func |-> "none"]

\* A call node: callee name, call type, target Function identity, arguments.
CallNode(nm, ct, fn, as) ==
    [kind |-> "Call", name |-> nm, param |-> FALSE, rdom |-> NoDomain, type |-> "i32",
     kids |-> as, call_type |-> ct, func |-> fn]

NodeIds == 1..24

\* The expressions the caller builds.  Names: x, y pure variables; i in
\* reduction domain A; j in reduction domain B; B also has a variable named
\* x, and node 5 is a variable named x that is bound to a parameter.
Node(n) ==
    CASE n = 1  -> VarNode("x", FALSE, NoDomain)
      [] n = 2  -> VarNode("y", FALSE, NoDomain)
      [] n = 3  -> VarNode("i", FALSE, "A")
      [] n = 4  -> VarNode("j", FALSE, "B")
      [] n = 5  -> VarNode("x", TRUE, NoDomain)
      [] n = 6  -> VarNode("t", FALSE, NoDomain)
      [] n = 7  -> VarNode("x", FALSE, "B")
      [] n = 8  -> ImmNode("i32")
      [] n = 9  -> ImmNode("f32")
      [] n = 10 -> AddNode(6, 8)                                \* t + 1
      [] n = 11 -> LetNode("t", 8, 10)                          \* let t = 1 in t + 1
      [] n = 12 -> AddNode(11, 10)                              \* (let t = 1 in t + 1) + (t + 1), t + 1 shared
      [] n = 13 -> CallNode("f", "Halide", This, <<1, 2>>)      \* f(x, y)
      [] n = 14 -> CallNode("f", "Halide", This, <<2, 1>>)      \* f(y, x)
      [] n = 15 -> CallNode("f", "Halide", This, <<1, 3>>)      \* f(x, i)
      [] n = 16 -> AddNode(13, 8)                               \* f(x, y) + 1
      [] n = 17 -> AddNode(15, 8)                               \* f(x, i) (*) 2
      [] n = 18 -> CallNode("ext", "Extern", "none", <<13>>)    \* ext(f(x, y))
      [] n = 19 -> AddNode(3, 4)                                \* i + j
      [] n = 20 -> AddNode(1, 2)                                \* x + y
      [] n = 21 -> AddNode(14, 8)                               \* f(y, x) + 1
      [] n = 22 -> LetNode("t", 10, 8)                          \* let t = t + 1 in 1
      [] n = 23 -> AddNode(3, 7)                                \* i + x, x tagged with B
      [] n = 24 -> CallNode("g", "Halide", "G", <<1>>)          \* g(x)

\* ReductionDomain::domain(): the domain's variables in order.
Domain(d) ==
    CASE d = "A" -> <<"i">>
      [] d = "B" -> <<"j", "x">>
      [] OTHER   -> <<>>

\* Expr::type()
TypeOf(n) == Node(n).type

\* Every node reachable from n, n included.
RECURSIVE Reach(_)
Reach(n) ==
    {n} \cup UNION {Reach(Node(n).kids[k]) : k \in 1..Len(Node(n).kids)}

\* Every node reachable from the expressions of a sequence.
ReachAll(es) == UNION {Reach(es[k]) : k \in {m \in 1..Len(es) : es[m] # Undefined}}

\* The call nodes among ns whose target is the Function under definition.
SelfCalls(ns) == {n \in ns : Node(n).kind = "Call" /\ Node(n).func = This}

\* ---------------------------------------------------------------- CheckVars
\* Scope<int>: push / pop / contains on the stack of let-bound names.
ScopePush(scope, nm) == Append(scope, nm)
ScopePop(scope, nm) == SubSeq(scope, 1, Len(scope) - 1)
ScopeContains(scope, nm) == \E k \in 1..Len(scope) : scope[k] = nm

\* A freshly constructed CheckVars: nothing visited, empty scope, no
\* reduction domain, no failed assertion.
CheckVarsInit ==
    [visited |-> {}, defined_internally |-> <<>>, reduction_domain |-> NoDomain,
     err |-> "ok"]

\* CheckVars::visit(const Variable *).
VisitVariable(var, st, pure_args) ==
    IF var.param THEN st
    ELSE IF ScopeContains(st.defined_internally, var.name) THEN st
    ELSE IF \E k \in 1..Len(pure_args) : var.name = pure_args[k] THEN st
    ELSE IF var.rdom # NoDomain
         THEN IF st.reduction_domain = NoDomain
              THEN [st EXCEPT !.reduction_domain = var.rdom]
              ELSE IF var.rdom = st.reduction_domain THEN st
              ELSE [st EXCEPT !.err = "ConflictingReductionDomain"]
    ELSE [st EXCEPT !.err = "UnresolvedIdentifier"]

\* The body of CheckVars::visit(const Call *) after its arguments were
\* visited: fname is what func.name() yields.
RecursiveReferenceOk(op, pure_args) ==
    \A k \in 1..Len(op.kids) :
        pure_args[k] # "" =>
            (Node(op.kids[k]).kind = "Var" /\ Node(op.kids[k]).name = pure_args[k])

VisitCallCheck(op, st, pure_args, fname) ==
    IF op.name = fname /\ op.call_type = "Halide" /\ ~RecursiveReferenceOk(op, pure_args)
    THEN [st EXCEPT !.err = "InvalidRecursiveReference"]
    ELSE st

RECURSIVE CheckAccept(_, _, _, _)
RECURSIVE CheckIncludeFrom(_, _, _, _, _)

\* IRGraphVisitor::include: a node already in the visited set is skipped.
CheckInclude(n, st, pure_args, fname) ==
    IF n \in st.visited THEN st
    ELSE CheckAccept(n, [st EXCEPT !.visited = @ \cup {n}], pure_args, fname)

\* IRGraphVisitor::visit of a node's children, left to right from index k.
CheckIncludeFrom(kids, k, st, pure_args, fname) ==
    IF k > Len(kids) THEN st
    ELSE CheckIncludeFrom(kids, k + 1, CheckInclude(kids[k], st, pure_args, fname),
                          pure_args, fname)

\* Expr::accept(&check): dispatch on the node kind.  The first failed
\* assertion aborts, so nothing more is visited once err is set.
CheckAccept(n, st, pure_args, fname) ==
    IF st.err # "ok" THEN st
    ELSE LET node == Node(n) IN
         CASE node.kind = "Var" -> VisitVariable(node, st, pure_args)
           [] node.kind = "Let" ->
                LET s1 == CheckAccept(node.kids[1], st, pure_args, fname)
                    s2 == [s1 EXCEPT !.defined_internally = ScopePush(@, node.name)]
                    s3 == CheckAccept(node.kids[2], s2, pure_args, fname)
                IN  IF s3.err # "ok" THEN s3
                    ELSE [s3 EXCEPT !.defined_internally = ScopePop(@, node.name)]
           [] node.kind = "Call" ->
                LET s1 == CheckIncludeFrom(node.kids, 1, st, pure_args, fname)
                IN  IF s1.err # "ok" THEN s1
                    ELSE VisitCallCheck(node, s1, pure_args, fname)
           [] OTHER -> CheckIncludeFrom(node.kids, 1, st, pure_args, fname)

\* for (i ...) exprs[i].accept(&check), from index k, with one CheckVars.
RECURSIVE CheckExprs(_, _, _, _, _)
CheckExprs(es, k, st, pure_args, fname) ==
    IF k > Len(es) THEN st
    ELSE CheckExprs(es, k + 1, CheckAccept(es[k], st, pure_args, fname), pure_args, fname)

\* ------------------------------------------------------ CountSelfReferences
RECURSIVE CountAccept(_, _)
RECURSIVE CountIncludeFrom(_, _, _)

CountInclude(n, st) ==
    IF n \in st.visited THEN st
    ELSE CountAccept(n, [st EXCEPT !.visited = @ \cup {n}])

CountIncludeFrom(kids, k, st) ==
    IF k > Len(kids) THEN st
    ELSE CountIncludeFrom(kids, k + 1, CountInclude(kids[k], st))

\* CountSelfReferences::visit(const Call *): the call is recorded when its
\* target is the Function; the call's arguments are not visited.
CountVisitCall(n, st) ==
    IF Node(n).func = This THEN [st EXCEPT !.calls = @ \cup {n}] ELSE st

CountAccept(n, st) ==
    IF Node(n).kind = "Call" THEN CountVisitCall(n, st)
    ELSE CountIncludeFrom(Node(n).kids, 1, st)

RECURSIVE CountExprs(_, _, _)
CountExprs(es, k, st) ==
    IF k > Len(es) THEN st
    ELSE CountExprs(es, k + 1, CountAccept(es[k], st))

\* counter.calls after visiting args and then values.
CountedCalls(args, values) ==
    CountExprs(values, 1, CountExprs(args, 1, [visited |-> {}, calls |-> {}])).calls

\* ------------------------------------------------------------ external passes
\* common_subexpression_elimination(Expr): the expression, with its free
\* variables and its call nodes as they are.
common_subexpression_elimination(e) == e

\* lower_random(Expr, free_vars, tag): the expression, its calls to random()
\* tagged with the free variables and the generation id.
lower_random(e, free_vars, tag) == [expr |-> e, free_vars |-> free_vars, tag |-> tag]

\* The expression graphs behind stored (lowered) expressions.
Exprs(lowered) == [k \in 1..Len(lowered) |-> lowered[k].expr]

\* unique_name('e'): a name never issued before; uc counts the names issued.
unique_name(uc) ==
    CASE uc = 0 -> "e0" [] uc = 1 -> "e1" [] uc = 2 -> "e2" [] OTHER -> "e3"

\* Parameter(type, true, buffer_name), buffer_name = name() or
\* name() + '.' + int_to_string(i).
OutputBuffer(ty, fname, n, i) ==
    [type |-> ty, is_buffer |-> TRUE,
     name |-> IF n > 1 THEN <<fname, ".", i>> ELSE <<fname>>]

\* ------------------------------------------------------------------- state
VARIABLES
    contents,        \* FunctionContents: the fields behind the Function handle
    handles,         \* Function handles the caller holds (each one reference)
    rand_counter,    \* the file-static generation counter
    unique_counter,  \* names issued by unique_name
    result,          \* the last operation and how it ended
    last_call,       \* the arguments the last operation was called with
    warning,         \* whether the last define_reduction printed its warning
    funcs,           \* the FunctionContents of the Functions defined by threads
    pc,              \* where each thread is in its definition call
    pending,         \* the call each thread is in: operation and inputs
    tag_local        \* each thread's local 'int tag', once loaded

vars == <<contents, handles, rand_counter, unique_counter, result, last_call, warning,
          funcs, pc, pending, tag_local>>

\* The state of the threads that define other Functions.
threadvars == <<funcs, pc, pending, tag_local>>

NoExtern == "none"

\* Function accessors.
has_pure_definition(c) == c.values # <<>>
has_reduction_definition(c) == c.reductions # <<>>
has_extern_definition(c) == c.extern_function_name # NoExtern
dimensions(c) == Len(c.args)

\* A FunctionContents as constructed: nothing defined, one reference.
EmptyContents(nm) ==
    [name |-> nm, args |-> <<>>, values |-> <<>>, output_types |-> <<>>,
     dims |-> <<>>, storage_dims |-> <<>>, output_buffers |-> <<>>,
     reductions |-> <<>>, extern_function_name |-> NoExtern,
     extern_arguments |-> <<>>, ref_count |-> 1]

\* The self-call nodes kept alive by the Function's own stored definitions.
StoredInPure(c) == SelfCalls(ReachAll(Exprs(c.values)))
StoredInUpdates(c) ==
    SelfCalls(UNION {ReachAll(Exprs(c.reductions[k].args)) \cup
                     ReachAll(Exprs(c.reductions[k].values)) :
                     k \in 1..Len(c.reductions)})
StoredCalls(c) == StoredInPure(c) \cup StoredInUpdates(c)

\* A call node holds one reference to its target for as long as the node
\* lives: the self-call nodes of es that no stored definition holds yet.
NewCalls(c, es) == SelfCalls(ReachAll(es)) \ StoredCalls(c)

\* The outcome of an operation: error kind, contents, counters, warning.
Outcome(e, c, rc, w) == [err |-> e, contents |-> c, rand_counter |-> rc, warned |-> w]

\* rand_counter++ without the increment.
NotIncremented(rc) == rc

\* rand_counter++ in 'int tag = rand_counter++': the counter after it.
Incremented(rc) == rc + 1

\* ---------------------------------------------------------- Function::define
\* define without the loop over the argument names.
FirstBadArgNone(args) == 0

\* The first argument index whose name is empty or repeats an earlier one
\* (0 when there is none).
FirstBadArg(args) ==
    LET bad == {k \in 1..Len(args) :
                   args[k] = "" \/ \E m \in 1..(k - 1) : args[k] = args[m]}
    IN  IF bad = {} THEN 0 ELSE CHOOSE k \in bad : \A m \in bad : k <= m

\* define without its first assertion.
DefineIgnoresExtern(c) == FALSE

\* assertf(!has_extern_definition()) at the head of define.
DefineRejectsExtern(c) == has_extern_definition(c)

\* assertf(contents.ptr->values.empty(), "Function is already defined").
DefineRejectsRedefinition(c) == c.values # <<>>

\* assertf(!check.reduction_domain.defined()) in define.
DefineRejectsDomain(check) == check.reduction_domain # NoDomain

\* The stores of define after its last assertion.
DefineCommit(c, args, vals) ==
    [c EXCEPT
       !.values = vals,
       !.args = args,
       !.output_types = [k \in 1..Len(vals) |-> TypeOf(vals[k].expr)],
       !.dims = @ \o args,
       !.storage_dims = @ \o args,
       !.output_buffers =
           @ \o [k \in 1..Len(vals) |->
                    OutputBuffer(TypeOf(vals[k].expr), c.name, Len(vals), k - 1)],
       !.ref_count = @ + Cardinality(NewCalls(c, Exprs(vals)))]

define(c, rc, args, values) ==
    IF DefineRejectsExtern(c) THEN Outcome("PureOnExtern", c, rc, FALSE)
    ELSE IF c.name = "" THEN Outcome("NeedsName", c, rc, FALSE)
    ELSE IF \E k \in 1..Len(values) : values[k] = Undefined
         THEN Outcome("UndefinedExpr", c, rc, FALSE)
    ELSE LET check == CheckExprs(values, 1, CheckVarsInit, args, c.name)
             bad == FirstBadArg(args)
             tag == rc
             vals == [k \in 1..Len(values) |->
                        lower_random(common_subexpression_elimination(values[k]),
                                     args, tag)]
         IN  IF check.err # "ok" THEN Outcome(check.err, c, rc, FALSE)
             ELSE IF bad # 0
                  THEN Outcome(IF args[bad] = "" THEN "EmptyArgumentName"
                               ELSE "DuplicateArgumentName", c, rc, FALSE)
             ELSE IF DefineRejectsDomain(check)
                  THEN Outcome("PureDefinitionHasReductionDomain", c, Incremented(rc), FALSE)
             ELSE IF DefineRejectsRedefinition(c)
                  THEN Outcome("AlreadyDefined", c, Incremented(rc), FALSE)
             ELSE Outcome("ok", DefineCommit(c, args, vals), Incremented(rc), FALSE)

\* ------------------------------------------------ Function::define_reduction
\* define_reduction without its has_pure_definition() assertion.
ReductionAcceptsUndefined(c) == FALSE

\* assertf(has_pure_definition(), ...) at the head of define_reduction.
ReductionRejectsUndefined(c) == ~has_pure_definition(c)

\* define_reduction without the comparison of the value types.
ReductionTypesAny(c, in_values) == TRUE

\* assertf(contents.ptr->values[i].type() == values[i].type(), ...) for
\* every i.
ReductionTypesMatch(c, in_values) ==
    \A k \in 1..Len(in_values) : TypeOf(c.values[k].expr) = TypeOf(in_values[k])

\* pure_args[i]: the name of args[i] when it is a naked variable, not a
\* parameter, not in a reduction domain, and named like the pure
\* definition's i-th argument; "" otherwise.
PureArg(c, args, k) ==
    LET var == Node(args[k]) IN
    IF var.kind = "Var" /\ ~var.param /\ var.rdom = NoDomain /\ var.name = c.args[k]
    THEN var.name ELSE ""

PureArgs(c, args) == [k \in 1..Len(args) |-> PureArg(c, args, k)]

\* The names of a pure_args vector that are not "".
RECURSIVE NonEmpty(_)
NonEmpty(names) ==
    IF names = <<>> THEN <<>>
    ELSE (IF Head(names) = "" THEN <<>> ELSE <<Head(names)>>) \o NonEmpty(Tail(names))

\* The two loops that fill r.schedule.dims in the other order.
ReductionDimsPureFirst(domain, pure_args) == NonEmpty(pure_args) \o Domain(domain)

\* r.schedule.dims: first the reduction domain's variables, then the pure
\* args outside of that.
ReductionDims(domain, pure_args) == Domain(domain) \o NonEmpty(pure_args)

\* free_vars for lower_random: the pure args, then the domain's variables.
FreeVars(domain, pure_args) == NonEmpty(pure_args) \o Domain(domain)

\* The warning's condition: no reduction domain, no counted self-reference,
\* every left-hand-side position pure.
HidesEarlier(domain, calls, pure_args) ==
    domain = NoDomain /\ calls = {} /\ \A k \in 1..Len(pure_args) : pure_args[k] # ""

\* The loop that decrements ref_count once per counted call and asserts
\* after each decrement that the count is not zero: the count after the
\* loop, or 0 when a decrement reached zero and the assertion failed.
BreakCycles(count, n) == IF count - n >= 1 THEN count - n ELSE 0

\* The decrement loop without its assertion.
CycleAssertNever(count, n) == FALSE

\* assertf(!contents.ptr->ref_count.is_zero(), "Bug: removed too many
\* circular references ...") fails in one of the loop's n iterations.
CycleAssertFails(count, n) == n >= 1 /\ count - n < 1

define_reduction(c, rc, in_args, in_values, fname) ==
    IF c.name = "" THEN Outcome("NeedsName", c, rc, FALSE)
    ELSE IF ReductionRejectsUndefined(c) THEN Outcome("MissingPureDefinition", c, rc, FALSE)
    ELSE IF \E k \in 1..Len(in_values) : in_values[k] = Undefined
         THEN Outcome("UndefinedExpr", c, rc, FALSE)
    ELSE IF Len(in_args) # dimensions(c) THEN Outcome("ArityMismatch", c, rc, FALSE)
    ELSE IF Len(in_values) # Len(c.values) THEN Outcome("ArityMismatch", c, rc, FALSE)
    ELSE IF ~ReductionTypesMatch(c, in_values)
         THEN Outcome("ArityMismatch", c, rc, FALSE)
    ELSE IF \E k \in 1..Len(in_args) : in_args[k] = Undefined
         THEN Outcome("UndefinedExpr", c, rc, FALSE)
    ELSE LET values == [k \in 1..Len(in_values) |->
                           common_subexpression_elimination(in_values[k])]
             args == [k \in 1..Len(in_args) |->
                           common_subexpression_elimination(in_args[k])]
             pure_args == PureArgs(c, args)
             check == CheckExprs(values, 1,
                                 CheckExprs(args, 1, CheckVarsInit, pure_args, fname),
                                 pure_args, fname)
             domain == check.reduction_domain
             free_vars == FreeVars(domain, pure_args)
             tag == rc
             r == [args |-> [k \in 1..Len(args) |-> lower_random(args[k], free_vars, tag)],
                   values |-> [k \in 1..Len(values) |->
                                  lower_random(values[k], free_vars, tag)],
                   domain |-> domain,
                   dims |-> ReductionDims(domain, pure_args)]
             calls == CountedCalls(args, values)
             live == c.ref_count + Cardinality(NewCalls(c, args \o values))
             count == BreakCycles(live, Cardinality(calls))
         IN  IF check.err # "ok" THEN Outcome(check.err, c, rc, FALSE)
             ELSE IF CycleAssertFails(live, Cardinality(calls))
                  THEN Outcome("CycleAccountingViolation",
                               [c EXCEPT !.ref_count = 0], Incremented(rc), FALSE)
             ELSE Outcome("ok",
                          [c EXCEPT !.ref_count = count,
                                    !.reductions = Append(@, r)],
                          Incremented(rc), HidesEarlier(domain, calls, pure_args))

\* ---------------------------------------------------- Function::define_extern
\* The two assertions at the head of define_extern.
ExternRejectsDefined(c) == has_pure_definition(c) \/ has_reduction_definition(c)
ExternRejectsExtern(c) == has_extern_definition(c)

define_extern(c, uc, function_name, ext_args, types, dimensionality) ==
    IF ExternRejectsDefined(c) THEN [err |-> "ExternOnPure", contents |-> c, uc |-> uc]
    ELSE IF ExternRejectsExtern(c)
         THEN [err |-> "ExternAlreadyDefined", contents |-> c, uc |-> uc]
    ELSE LET c1 == [c EXCEPT
                      !.extern_function_name = function_name,
                      !.extern_arguments = ext_args,
                      !.output_types = types,
                      !.output_buffers =
                          @ \o [k \in 1..Len(types) |->
                                   OutputBuffer(types[k], c.name, Len(types), k - 1)]]
             names == [k \in 1..dimensionality |-> unique_name(uc + k - 1)]
         IN  \* args.resize(dimensionality) with a negative int asks for more
             \* than max_size() elements and throws std::length_error.
             IF dimensionality < 0
             THEN [err |-> "LengthError", contents |-> c1, uc |-> uc]
             ELSE [err |-> "ok",
                   contents |-> [c1 EXCEPT !.args = names,
                                           !.storage_dims = @ \o names],
                   uc |-> uc + dimensionality]

\* ----------------------------------------------------------------- inputs
\* Argument-name lists passed to define.
ArgLists == {<<"x", "y">>, <<"x", "x">>, <<"", "y">>}

\* Value lists passed to define.
PureValueLists ==
    {<<>>, <<20>>, <<20, 9>>, <<Undefined>>, <<6>>, <<3>>, <<7>>, <<12>>, <<22>>}

\* Left-hand-side argument lists passed to define_reduction.
LhsLists ==
    {<<1, 2>>, <<1, 3>>, <<3, 4>>, <<1>>, <<1, Undefined>>, <<5, 2>>}

\* Value lists passed to define_reduction.
UpdateValueLists ==
    {<<>>, <<16>>, <<17>>, <<18>>, <<8>>, <<9>>, <<Undefined>>, <<16, 9>>, <<19>>,
     <<23>>, <<21>>, <<6>>}

\* What func.name() yields in CheckVars when func is the reference that
\* define_reduction binds to the temporary Function made from name():
\* the temporary is destroyed before the first visit, so the read is of a
\* dead object and yields its old name or anything else.  Only
\* visit(const Call *) reads it.
Garbage == "?"
DanglingNames(c, es) ==
    IF \E n \in ReachAll(es) : Node(n).kind = "Call" THEN {c.name, Garbage} ELSE {c.name}

\* Inputs of define_extern.
ExternNames == {"extern_fn"}
ExternArgLists == {<<>>, <<"buf">>}
TypeLists == {<<"i32">>, <<"i32", "f32">>}
Dimensionalities == {-1, 0, 2}

Running == result.err = "ok" /\ handles >= 1 /\ contents.ref_count >= 1

\* The arguments of an operation that takes none.
NoArguments == [args |-> <<>>]

\* The threads, one Function each, and the Functions' names.
Threads == {1, 2}
ThreadFunctionName(t) == IF t = 1 THEN "f" ELSE "g"
NoCall == [op |-> "none", args |-> <<>>, values |-> <<>>]

\* No thread has called anything yet.
ThreadsIdle ==
    /\ funcs = [t \in Threads |-> EmptyContents(ThreadFunctionName(t))]
    /\ pc = [t \in Threads |-> "idle"]
    /\ pending = [t \in Threads |-> NoCall]
    /\ tag_local = [t \in Threads |-> 0]

Init ==
    /\ contents \in {EmptyContents(nm) : nm \in {"f", ""}}
    /\ handles = 1
    /\ rand_counter = 0
    /\ unique_counter = 0
    /\ result = [op |-> "new", err |-> "ok"]
    /\ last_call = NoArguments
    /\ warning = FALSE
    /\ ThreadsIdle

Define ==
    /\ Running
    /\ rand_counter < MaxCounter
    /\ \E args \in ArgLists, values \in PureValueLists :
         LET r == define(contents, rand_counter, args, values) IN
           /\ contents' = r.contents
           /\ rand_counter' = r.rand_counter
           /\ result' = [op |-> "define", err |-> r.err]
           /\ last_call' = [args |-> args, values |-> values]
           /\ warning' = FALSE
    /\ UNCHANGED <<handles, unique_counter, threadvars>>

DefineReduction ==
    /\ Running
    /\ rand_counter < MaxCounter
    /\ Len(contents.reductions) < MaxReductions
    /\ \E args \in LhsLists, values \in UpdateValueLists :
        \E fname \in DanglingNames(contents, args \o values) :
         LET r == define_reduction(contents, rand_counter, args, values, fname) IN
           /\ contents' = r.contents
           /\ rand_counter' = r.rand_counter
           /\ result' = [op |-> "define_reduction", err |-> r.err]
           /\ last_call' = [args |-> args, values |-> values]
           /\ warning' = r.warned
    /\ UNCHANGED <<handles, unique_counter, threadvars>>

DefineExtern ==
    /\ Running
    /\ \E fn \in ExternNames, ea \in ExternArgLists, tys \in TypeLists,
          d \in Dimensionalities :
         LET r == define_extern(contents, unique_counter, fn, ea, tys, d) IN
           /\ contents' = r.contents
           /\ unique_counter' = r.uc
           /\ result' = [op |-> "define_extern", err |-> r.err]
           /\ last_call' = [function_name |-> fn, args |-> ea, types |-> tys,
                            dimensionality |-> d]
    /\ warning' = FALSE
    /\ UNCHANGED <<handles, rand_counter, threadvars>>

\* The caller copies its Function handle: one more reference.
CopyHandle ==
    /\ Running
    /\ handles < MaxHolders
    /\ handles' = handles + 1
    /\ contents' = [contents EXCEPT !.ref_count = @ + 1]
    /\ result' = [op |-> "copy", err |-> "ok"]
    /\ last_call' = NoArguments
    /\ warning' = FALSE
    /\ UNCHANGED <<rand_counter, unique_counter, threadvars>>

\* The caller drops a Function handle: one reference less; at zero the
\* FunctionContents is destroyed.
ReleaseHandle ==
    /\ Running
    /\ handles' = handles - 1
    /\ contents' = [contents EXCEPT !.ref_count = @ - 1]
    /\ result' = [op |-> "release", err |-> "ok"]
    /\ last_call' = NoArguments
    /\ warning' = FALSE
    /\ UNCHANGED <<rand_counter, unique_counter, threadvars>>

Next == Define \/ DefineReduction \/ DefineExtern \/ CopyHandle \/ ReleaseHandle

Spec == Init /\ [][Next]_vars

\* ------------------------------------------- definitions of several Functions
\* Each thread defines its own Function with define and define_reduction;
\* rand_counter is the one file-static counter they all use.
ThreadPureValueLists == {<<20>>, <<20, 9>>}
ThreadUpdateValueLists == {<<8>>, <<20>>, <<8, 9>>}
ThreadCalls ==
    {[op |-> "define", args |-> <<"x", "y">>, values |-> v] : v \in ThreadPureValueLists}
    \cup {[op |-> "define_reduction", args |-> <<1, 2>>, values |-> v] :
              v \in ThreadUpdateValueLists}

\* The call on FunctionContents c when 'int tag = rand_counter++' reads rc.
CallOutcome(call, c, rc) ==
    IF call.op = "define" THEN define(c, rc, call.args, call.values)
    ELSE define_reduction(c, rc, call.args, call.values, c.name)

\* Thread t enters define or define_reduction and runs it up to
\* 'int tag = rand_counter++': an assertion that fails before that line
\* ends the process, otherwise the thread is about to read rand_counter.
Enter(t) ==
    /\ result.err = "ok"
    /\ pc[t] = "idle"
    /\ rand_counter < MaxCounter
    /\ Len(funcs[t].reductions) < MaxReductions
    /\ \E call \in ThreadCalls :
         LET r == CallOutcome(call, funcs[t], rand_counter) IN
         IF r.err # "ok" /\ r.rand_counter = rand_counter
         THEN /\ result' = [op |-> call.op, err |-> r.err]
              /\ UNCHANGED <<pc, pending>>
         ELSE /\ pc' = [pc EXCEPT ![t] = "load"]
              /\ pending' = [pending EXCEPT ![t] = call]
              /\ UNCHANGED result
    /\ UNCHANGED <<contents, handles, rand_counter, unique_counter, last_call, warning,
                   funcs, tag_local>>

\* The same, in a program where one call returns before the next is made.
EnterAlone(t) == (\A u \in Threads : pc[u] = "idle") /\ Enter(t)

\* rand_counter++ on a plain static int, first half: tag = rand_counter.
LoadCounter(t) ==
    /\ pc[t] = "load"
    /\ tag_local' = [tag_local EXCEPT ![t] = rand_counter]
    /\ pc' = [pc EXCEPT ![t] = "store"]
    /\ UNCHANGED <<contents, handles, rand_counter, unique_counter, result, last_call,
                   warning, funcs, pending>>

\* rand_counter++, second half: rand_counter = tag + 1; then the rest of
\* the call, which uses tag and touches the thread's own Function only.
StoreCounter(t) ==
    /\ pc[t] = "store"
    /\ LET r == CallOutcome(pending[t], funcs[t], tag_local[t]) IN
         /\ rand_counter' = Incremented(tag_local[t])
         /\ funcs' = [funcs EXCEPT ![t] = r.contents]
         /\ result' = [op |-> pending[t].op, err |-> r.err]
    /\ pc' = [pc EXCEPT ![t] = "idle"]
    /\ pending' = [pending EXCEPT ![t] = NoCall]
    /\ tag_local' = [tag_local EXCEPT ![t] = 0]
    /\ UNCHANGED <<contents, handles, unique_counter, last_call, warning>>

InitFunctions ==
    /\ contents = EmptyContents("f")
    /\ handles = 1
    /\ rand_counter = 0
    /\ unique_counter = 0
    /\ result = [op |-> "new", err |-> "ok"]
    /\ last_call = NoArguments
    /\ warning = FALSE
    /\ ThreadsIdle

\* One thread of control defines the Functions, call after call.
NextSequential ==
    \E t \in Threads : EnterAlone(t) \/ LoadCounter(t) \/ StoreCounter(t)

SpecSequential == InitFunctions /\ [][NextSequential]_vars

\* Each Function is defined by a thread of its own.
NextThreads ==
    \E t \in Threads : Enter(t) \/ LoadCounter(t) \/ StoreCounter(t)

SpecThreads == InitFunctions /\ [][NextThreads]_vars

\* ------------------------------------------------------------------ claims
DefinitionOps == {"define", "define_reduction", "define_extern"}

\* The expression graphs of a stored update definition.
UpdateExprs(r) == Exprs(r.args) \o Exprs(r.values)

\* The failed validations: every error kind but the std::length_error that
\* vector::resize throws.
ValidationFailed(res) == res.op \in DefinitionOps /\ res.err \notin {"ok", "LengthError"}

\* C1: every define, define_reduction or define_extern that fails a
\* validation, the cycle-accounting one included, leaves the Function's
\* state (argument names, output expressions and types, schedule dimensions,
\* output buffers, update definitions, extern metadata, reference count)
\* exactly as it was before the call.
C1_FailedCallChangesNothing ==
    [][ValidationFailed(result') => contents' = contents]_vars

\* The holders of the Function outside its own update-definition list: the
\* caller's handles and the self-call nodes only its pure definition holds.
ExternalHolders == handles + Cardinality(StoredInPure(contents) \ StoredInUpdates(contents))

\* C2: after successful define_reduction calls the reference count equals
\* the number of holders outside the update-definition list, so releasing
\* every external holder brings the count to zero and frees the Function.
C2_RefCountIsExternalHolders ==
    result.err = "ok" => contents.ref_count = ExternalHolders

\* A define has committed something to the Function.
CommittedPure(c) == c.values # <<>> \/ c.dims # <<>>

\* C3: define on a Function with a committed pure definition, whatever the
\* number of its output expressions, always fails (AlreadyDefined) and
\* leaves the committed argument names, output expressions, output types and
\* schedule dimensions unchanged.  The formula asks for a failure of any
\* kind, so only a second define that succeeds refutes it.
C3_RedefinitionFails ==
    [][(result'.op = "define" /\ CommittedPure(contents)) =>
          /\ result'.err # "ok"
          /\ contents'.args = contents.args
          /\ contents'.values = contents.values
          /\ contents'.output_types = contents.output_types
          /\ contents'.dims = contents.dims]_vars

\* C4: define_reduction on a Function without a pure definition fails with
\* MissingPureDefinition and appends nothing; so every stored update
\* definition belongs to a Function with a pure definition.
C4_UpdateBeforePureFails ==
    /\ (result.op = "define_reduction" /\ ~has_pure_definition(contents)) =>
          (result.err = "MissingPureDefinition" /\ contents.reductions = <<>>)
    /\ contents.reductions # <<>> => has_pure_definition(contents)

\* C4 as amended: define_reduction on a Function without a pure definition
\* fails and appends nothing; the failure is MissingPureDefinition when the
\* Function has a name, and the missing-name failure when it has none.
C4_UpdateBeforePureFailsNamed ==
    /\ (result.op = "define_reduction" /\ ~has_pure_definition(contents)) =>
          /\ result.err = (IF contents.name = "" THEN "NeedsName"
                           ELSE "MissingPureDefinition")
          /\ contents.reductions = <<>>
    /\ contents.reductions # <<>> => has_pure_definition(contents)

\* C4 witness: define_reduction was refused on an extern-only Function.
C4_Witness ==
    /\ result = [op |-> "define_reduction", err |-> "MissingPureDefinition"]
    /\ has_extern_definition(contents)

PurePositions(c, r) ==
    {k \in 1..Len(r.args) :
        LET v == Node(r.args[k].expr) IN
        v.kind = "Var" /\ v.param = FALSE /\ v.rdom = NoDomain /\ v.name = c.args[k]}

\* r's dimensions are the domain's variables in order, then the names at the
\* pure positions in increasing position.
DimsAreDomainThenPure(c, r) ==
    LET dom == Domain(r.domain)
        pure == PurePositions(c, r)
    IN  /\ Len(r.dims) = Len(dom) + Cardinality(pure)
        /\ \A m \in 1..Len(dom) : r.dims[m] = dom[m]
        /\ \A k \in pure :
              r.dims[Len(dom) + Cardinality({q \in pure : q <= k})] = c.args[k]

\* C6: the Schedule Descriptor of every stored update is the resolved
\* Reduction Domain's variables in domain order followed by the pure
\* positions' names left to right: f(x,i) over {i} gives [i, x], f(x,y)
\* without a domain gives [x, y].
C6_UpdateDimsDomainFirst ==
    \A k \in 1..Len(contents.reductions) :
        LET r == contents.reductions[k] IN
        /\ DimsAreDomainThenPure(contents, r)
        /\ (Exprs(r.args) = <<1, 3>> /\ r.domain = "A") => r.dims = <<"i", "x">>
        /\ (Exprs(r.args) = <<1, 2>> /\ r.domain = NoDomain) => r.dims = <<"x", "y">>

\* C6 witness: the update f(x,i) = f(x,i) ... over domain {i} is stored.
C6_Witness ==
    \E k \in 1..Len(contents.reductions) :
        /\ Exprs(contents.reductions[k].args) = <<1, 3>>
        /\ contents.reductions[k].domain = "A"
        /\ Exprs(contents.reductions[k].values) = <<17>>

\* The Reduction Domain instances tagged on the variables of es.
DomainsIn(es) == {Node(n).rdom : n \in {m \in ReachAll(es) : Node(m).rdom # NoDomain}}

\* C7: an update whose expressions carry variables of two distinct
\* Reduction Domain instances fails; every stored update definition
\* references at most one Reduction Domain instance.
C7_OneDomainPerUpdate ==
    \A k \in 1..Len(contents.reductions) :
        Cardinality(DomainsIn(UpdateExprs(contents.reductions[k]))) <= 1

\* C8: define succeeds only if no variable anywhere in its values is tagged
\* with a Reduction Domain.
C8_PureValuesHaveNoDomain ==
    DomainsIn(Exprs(contents.values)) = {}

\* Every variable occurrence under n is parameter-bound, bound by a let
\* enclosing the occurrence, named like a pure argument, or domain-tagged.
RECURSIVE Resolved(_, _, _)
Resolved(n, bound, names) ==
    LET node == Node(n) IN
    CASE node.kind = "Var" ->
            node.param \/ node.name \in bound \/ node.name \in names
            \/ node.rdom # NoDomain
      [] node.kind = "Let" ->
            /\ Resolved(node.kids[1], bound, names)
            /\ Resolved(node.kids[2], bound \cup {node.name}, names)
      [] OTHER -> \A k \in 1..Len(node.kids) : Resolved(node.kids[k], bound, names)

NamesOf(pure_args) == {pure_args[k] : k \in 1..Len(pure_args)} \ {""}

\* C9: define and define_reduction succeed only if every variable occurrence
\* of the validated expressions resolves, also for nodes shared between the
\* inside and the outside of a let body.
C9_EveryOccurrenceResolved ==
    /\ \A k \in 1..Len(contents.values) :
          Resolved(contents.values[k].expr, {}, NamesOf(contents.args))
    /\ \A k \in 1..Len(contents.reductions) :
          LET r == contents.reductions[k]
              es == UpdateExprs(r)
          IN  \A m \in 1..Len(es) :
                 Resolved(es[m], {}, NamesOf(PureArgs(contents, Exprs(r.args))))

\* C10: in every stored update definition every call back to the Function
\* has, at every pure position of the left-hand side, the bare variable of
\* that name as its argument.
C10_SelfCallsKeepPureArgs ==
    \A k \in 1..Len(contents.reductions) :
        LET r == contents.reductions[k]
            pure_args == PureArgs(contents, Exprs(r.args))
        IN  \A n \in SelfCalls(ReachAll(UpdateExprs(r))) :
               \A m \in 1..Len(pure_args) :
                  pure_args[m] # "" =>
                     /\ m <= Len(Node(n).kids)
                     /\ Node(Node(n).kids[m]).kind = "Var"
                     /\ Node(Node(n).kids[m]).name = pure_args[m]

\* An argument list with an empty name or two equal names.
BadNames(args) ==
    \E k \in 1..Len(args) : args[k] = "" \/ \E m \in 1..Len(args) : m # k /\ args[m] = args[k]

ArgNameErrors == {"EmptyArgumentName", "DuplicateArgumentName"}

\* C11: define with an argument list containing an empty name or two equal
\* names fails with EmptyArgumentName / DuplicateArgumentName and commits
\* nothing; every Function with a committed pure definition has non-empty,
\* pairwise-distinct argument names.  Stated for a Function that has a
\* name and no extern definition.
C11_BadArgNamesFail ==
    [][/\ (/\ result'.op = "define"
           /\ contents.name # ""
           /\ ~has_extern_definition(contents)
           /\ BadNames(last_call'.args)) =>
             (result'.err \in ArgNameErrors /\ contents' = contents)
       /\ has_pure_definition(contents') => ~BadNames(contents'.args)]_vars

\* The checks of define that come before the loop over the argument names
\* all pass: no extern definition, a name, defined values, and values that
\* pass the scope validation against args.
NameLoopReached(c, args, values) ==
    /\ ~has_extern_definition(c)
    /\ c.name # ""
    /\ \A k \in 1..Len(values) : values[k] # Undefined
    /\ CheckExprs(values, 1, CheckVarsInit, args, c.name).err = "ok"

\* C11 as amended: define with an argument list containing an empty name or
\* two equal names always fails and commits nothing; the failure is
\* EmptyArgumentName / DuplicateArgumentName when the checks that define
\* makes first (extern definition, name, defined values, scope validation
\* of the values) pass, and the failure of the first of those otherwise.
\* Every Function with a committed pure definition has non-empty,
\* pairwise-distinct argument names.
C11_BadArgNamesFailInOrder ==
    [][/\ (result'.op = "define" /\ BadNames(last_call'.args)) =>
             /\ result'.err # "ok"
             /\ contents' = contents
             /\ rand_counter' = rand_counter
             /\ NameLoopReached(contents, last_call'.args, last_call'.values) <=>
                   result'.err \in ArgNameErrors
       /\ has_pure_definition(contents') => ~BadNames(contents'.args)]_vars

\* C11 witness: define was refused for two equal argument names.
C11_Witness ==
    /\ result = [op |-> "define", err |-> "DuplicateArgumentName"]
    /\ last_call.args = <<"x", "x">>

\* The generation ids of the definition events stored in c, in the order of
\* the events: the pure definition's, then each update definition's.
EventTags(c) ==
    (IF c.values # <<>> THEN <<c.values[1].tag>> ELSE <<>>)
    \o [k \in 1..Len(c.reductions) |-> c.reductions[k].values[1].tag]

TagSet(c) == {EventTags(c)[k] : k \in 1..Len(EventTags(c))}

\* C12: every definition event (define or define_reduction, on the same or
\* on different Functions) gets a generation id strictly greater than every
\* id stored before it, and the event's expressions are stored with that
\* id; so the ids of one Function's events increase and no id of one
\* Function is an id of another.
C12_GenerationIdsIncrease ==
    [][/\ \A t \in Threads :
             (pc[t] = "store" /\ pc'[t] = "idle") =>
                /\ \A u \in Threads : \A g \in TagSet(funcs[u]) : tag_local[t] > g
                /\ rand_counter' > tag_local[t]
                /\ result'.err = "ok" =>
                      EventTags(funcs'[t]) = Append(EventTags(funcs[t]), tag_local[t])
       /\ \A t \in Threads, u \in Threads :
             t # u => TagSet(funcs'[t]) \cap TagSet(funcs'[u]) = {}
       /\ \A t \in Threads : \A k \in 1..Len(EventTags(funcs'[t])) :
             \A m \in 1..(k - 1) : EventTags(funcs'[t])[m] < EventTags(funcs'[t])[k]]_vars

\* C12 witness: definitions of the two Functions alternated, f's update
\* after g's pure definition after f's pure definition.
C12_Witness ==
    /\ EventTags(funcs[1]) = <<0, 2>>
    /\ EventTags(funcs[2]) = <<1>>

\* The update (args, values) does not fit the pure definition of c: another
\* number of arguments, another number of values, or a value of another type
\* than the pure definition's output at its index.
Misfit(c, args, values) ==
    \/ Len(args) # Len(c.args)
    \/ Len(values) # Len(c.values)
    \/ \E k \in 1..Len(values) :
          /\ values[k] # Undefined
          /\ k <= Len(c.output_types)
          /\ TypeOf(values[k]) # c.output_types[k]

\* Every stored update fits the pure definition.
UpdatesFit(c) ==
    \A k \in 1..Len(c.reductions) :
        ~Misfit(c, Exprs(c.reductions[k].args), Exprs(c.reductions[k].values))

\* C13: every stored update definition has as many left-hand-side arguments
\* as the pure definition has arguments, as many values as the pure
\* definition has outputs, each of the output's type; an update violating
\* any of these fails with ArityMismatch and is not appended.  Stated for
\* a Function that has a pure definition.
C13_UpdatesFitPure ==
    [][/\ UpdatesFit(contents')
       /\ (/\ result'.op = "define_reduction"
           /\ has_pure_definition(contents)
           /\ Misfit(contents, last_call'.args, last_call'.values)) =>
             (result'.err = "ArityMismatch" /\ contents'.reductions = contents.reductions)]_vars

\* C13 as amended: every stored update definition fits the pure definition
\* in argument count, value count and value types; an update violating any
\* of these fails and is not appended, with ArityMismatch when the checks
\* define_reduction makes first pass (the Function has a name and a pure
\* definition, every update value is defined) and with the failure of the
\* first of those otherwise.
C13_UpdatesFitPureInOrder ==
    [][/\ UpdatesFit(contents')
       /\ (/\ result'.op = "define_reduction"
           /\ Misfit(contents, last_call'.args, last_call'.values)) =>
             /\ result'.err # "ok"
             /\ contents' = contents
             /\ (/\ contents.name # ""
                 /\ has_pure_definition(contents)
                 /\ \A k \in 1..Len(last_call'.values) : last_call'.values[k] # Undefined)
                <=> result'.err = "ArityMismatch"]_vars

\* C13 witness: an update with a value of another type than the pure
\* definition's output was refused with ArityMismatch.
C13_Witness ==
    /\ result = [op |-> "define_reduction", err |-> "ArityMismatch"]
    /\ has_pure_definition(contents)
    /\ Len(last_call.args) = Len(contents.args)
    /\ Len(last_call.values) = Len(contents.values)

\* The expressions of the last call, arguments then values.
CallExprs(c) == c.args \o c.values

\* The decrements a define_reduction step made: the references alive when
\* the decrement loop starts (the count before the call and one per call
\* node that no stored definition held yet) less the count after it.
Decrements(es) ==
    contents.ref_count + Cardinality(NewCalls(contents, es)) - contents'.ref_count

\* C14: a successful define_reduction decrements the reference count once
\* for each distinct call node to the Function anywhere in the update's
\* argument and value graphs, inside the arguments of other calls included;
\* for f(x,y) = f(x,y) + 1 that is one decrement.
C14_OneDecrementPerSelfCall ==
    [][(result'.op = "define_reduction" /\ result'.err = "ok") =>
          /\ Decrements(CallExprs(last_call')) =
                Cardinality(SelfCalls(ReachAll(CallExprs(last_call'))))
          /\ (last_call'.args = <<1, 2>> /\ last_call'.values = <<16>>) =>
                Decrements(CallExprs(last_call')) = 1]_vars

\* C15: the cycle-breaking decrement never leaves a successfully updated
\* Function with reference count zero and never releases it: when the
\* decrements of the counted self-calls would bring the count to zero the
\* call reports CycleAccountingViolation, appends nothing and leaves every
\* field but the count as it was; after every successful define_reduction
\* the count is at least one.
C15_DecrementNeverReachesZero ==
    [][result'.op = "define_reduction" =>
          /\ result'.err = "ok" => contents'.ref_count >= 1
          /\ (/\ \A k \in 1..Len(CallExprs(last_call')) :
                    CallExprs(last_call')[k] # Undefined
              /\ contents.ref_count
                    + Cardinality(NewCalls(contents, CallExprs(last_call')))
                    - Cardinality(CountedCalls(last_call'.args, last_call'.values)) < 1) =>
                result'.err # "ok"
          /\ result'.err = "CycleAccountingViolation" =>
                [contents' EXCEPT !.ref_count = contents.ref_count] = contents]_vars

\* C15 witness: a define_reduction ended with the cycle-accounting failure.
C15_Witness ==
    /\ result = [op |-> "define_reduction", err |-> "CycleAccountingViolation"]
    /\ contents.reductions # <<>>

\* C16: when distinct Functions are defined concurrently, each by a thread
\* of its own, no two definition events receive the same generation id.
C16_ConcurrentIdsUnique ==
    /\ \A t \in Threads, u \in Threads :
          t # u => TagSet(funcs[t]) \cap TagSet(funcs[u]) = {}
    /\ \A t \in Threads : Cardinality(TagSet(funcs[t])) = Len(EventTags(funcs[t]))

\* The update definition a successful define_reduction step appended.
Appended == contents'.reductions[Len(contents'.reductions)]

\* C17: define_reduction emits the 'hides earlier definitions' advisory
\* exactly when the update has no Reduction Domain, no call back to the
\* Function anywhere in its argument and value expressions (at any nesting
\* depth), and every left-hand-side position is pure; the call then does
\* not fail and the update is appended.
C17_AdvisoryIffShadowing ==
    [][result'.op = "define_reduction" =>
          /\ warning' => result'.err = "ok"
          /\ result'.err = "ok" =>
                /\ contents'.reductions = Append(contents.reductions, Appended)
                /\ warning' <=>
                      /\ Appended.domain = NoDomain
                      /\ SelfCalls(ReachAll(CallExprs(last_call'))) = {}
                      /\ PurePositions(contents, Appended) = 1..Len(last_call'.args)]_vars

\* A successful define_reduction step leaves the pure definition's fields
\* as they were and appends one update definition.
ReductionKeepsPure ==
    /\ contents'.args = contents.args
    /\ contents'.values = contents.values
    /\ contents'.output_types = contents.output_types
    /\ contents'.dims = contents.dims
    /\ contents'.storage_dims = contents.storage_dims
    /\ contents'.output_buffers = contents.output_buffers
    /\ Len(contents'.reductions) = Len(contents.reductions) + 1
    /\ SubSeq(contents'.reductions, 1, Len(contents.reductions)) = contents.reductions

\* C18: a successful define_reduction changes none of the pure argument
\* names, output expressions, output types, pure Schedule Descriptor and
\* output buffers and appends one update definition; the pure Schedule
\* Descriptor of the Function it has updated is the declared argument
\* names, one dimension each, in declaration order.
C18_UpdateLeavesPureAlone ==
    [][(result'.op = "define_reduction" /\ result'.err = "ok") =>
          /\ ReductionKeepsPure
          /\ contents'.dims = contents'.args]_vars

\* The names unique_name has issued so far.
IssuedNames == {unique_name(k) : k \in 0..(unique_counter - 1)}

\* C19: after a successful define_extern with dimensionality d the Function
\* has d argument names, pairwise distinct and none of them issued before,
\* its schedule lists d dimensions (the storage dimensions, the list
\* define_extern fills), and it has one output buffer per output type; a
\* define_extern on a Function with extern metadata fails and leaves the
\* extern metadata unchanged.
C19_ExternShape ==
    [][result'.op = "define_extern" =>
          /\ result'.err = "ok" =>
                LET d == last_call'.dimensionality IN
                /\ Len(contents'.args) = d
                /\ \A k \in 1..d : contents'.args[k] \notin IssuedNames
                /\ \A k \in 1..d, m \in 1..d :
                      k # m => contents'.args[k] # contents'.args[m]
                /\ Len(contents'.storage_dims) = d
                /\ contents'.output_types = last_call'.types
                /\ Len(contents'.output_buffers) = Len(contents'.output_types)
          /\ has_extern_definition(contents) =>
                /\ result'.err # "ok"
                /\ contents'.extern_function_name = contents.extern_function_name
                /\ contents'.extern_arguments = contents.extern_arguments]_vars

\* The call nodes of es the validator's rule makes self-calls: callee name
\* the Function's name, call type Halide.
NamedSelfCalls(c, es) ==
    {n \in ReachAll(es) :
        Node(n).kind = "Call" /\ Node(n).name = c.name /\ Node(n).call_type = "Halide"}

\* Every call the counter counted came through the validator's
\* recursive-reference check: its arguments at the pure positions are the
\* pure variables.
CountedWereChecked(c, args, values) ==
    \A n \in CountedCalls(args, values) :
        /\ n \in NamedSelfCalls(c, args \o values)
        /\ RecursiveReferenceOk(Node(n), PureArgs(c, args))

\* Every call the validator's rule makes a self-call was counted.
CheckedWereCounted(c, args, values) ==
    NamedSelfCalls(c, args \o values) \subseteq CountedCalls(args, values)

\* C20: in a successful define_reduction the Scope Validator and the
\* Self-Reference Counter agree on the self-calls: every call the counter
\* counts was subjected to the validator's recursive-reference check, and
\* every call the validator's rule treats as a self-call is counted.
C20_ValidatorAndCounterAgree ==
    [][(result'.op = "define_reduction" /\ result'.err = "ok") =>
          /\ CountedWereChecked(contents, last_call'.args, last_call'.values)
          /\ CheckedWereCounted(contents, last_call'.args, last_call'.values)]_vars

====
